---- MODULE Spec2Model ----
(***************************************************************************)
(* Model of src/main.py: the ffprobe property extractor                    *)
(* (get_video_properties), the ffmpeg converter                            *)
(* (convert_video_to_requirements) and the Streamlit script that drives    *)
(* them.                                                                   *)
(*                                                                         *)
(* Text the code parses (r_frame_rate, display_aspect_ratio, gop_size,     *)
(* bit_rate, ...) is a sequence of one-character strings, so that          *)
(* str.split, int() and float() are computed character by character.      *)
(* Text the code only copies or compares (codec_name, field_order, the     *)
(* ffmpeg arguments) is an atomic string.  The alphabet of parsed text is  *)
(* digits, '+', '-', '.', '_', ' ', '/', ':', ',', '=' and the letters     *)
(* 'M', 'N', 'x'; inside that alphabet int() and float() accept exactly    *)
(* what ParseInt and ParseFloat accept.  A float that int / int or float()  *)
(* makes is represented by the reduced fraction it is the correctly        *)
(* rounded image of; a float that float / float makes is represented by    *)
(* its two operands (FloatQuotient).                                       *)
(***************************************************************************)
EXTENDS Integers, Sequences, FiniteSets, TLC

VARIABLES ui, probe, inspected, request, command, ffmpeg, converted

vars == <<ui, probe, inspected, request, command, ffmpeg, converted>>

-----------------------------------------------------------------------------
(* Bounds of the model *)

\* exit codes of the external processes range over 0..MaxExit
MaxExit == 1

-----------------------------------------------------------------------------
(* Python text primitives *)

Digits == {"0", "1", "2", "3", "4", "5", "6", "7", "8", "9"}

DigitValue(c) ==
    CASE c = "0" -> 0 [] c = "1" -> 1 [] c = "2" -> 2 [] c = "3" -> 3
      [] c = "4" -> 4 [] c = "5" -> 5 [] c = "6" -> 6 [] c = "7" -> 7
      [] c = "8" -> 8 [] c = "9" -> 9

\* str.split(sep): every occurrence of sep separates two parts, empty parts kept
RECURSIVE Split(_, _)
Split(cs, sep) ==
    IF \A i \in 1..Len(cs) : cs[i] # sep
    THEN <<cs>>
    ELSE LET i == CHOOSE k \in 1..Len(cs) :
                      cs[k] = sep /\ \A j \in 1..(k - 1) : cs[j] # sep
         IN  <<SubSeq(cs, 1, i - 1)>> \o Split(SubSeq(cs, i + 1, Len(cs)), sep)

\* str.strip() as int() and float() apply it to their argument
RECURSIVE Strip(_)
Strip(cs) ==
    IF cs = <<>> THEN cs
    ELSE IF cs[1] = " " THEN Strip(Tail(cs))
    ELSE IF cs[Len(cs)] = " " THEN Strip(SubSeq(cs, 1, Len(cs) - 1))
    ELSE cs

\* a digit string of a Python numeric literal: digits, single '_' between digits
DigitString(cs) ==
    /\ cs # <<>>
    /\ \A i \in 1..Len(cs) : cs[i] \in Digits \cup {"_"}
    /\ cs[1] # "_"
    /\ cs[Len(cs)] # "_"
    /\ \A i \in 1..(Len(cs) - 1) : ~(cs[i] = "_" /\ cs[i + 1] = "_")

\* the value of a digit string read in base 10, underscores skipped
RECURSIVE DigitsValue(_, _)
DigitsValue(cs, acc) ==
    IF cs = <<>> THEN acc
    ELSE IF cs[1] = "_" THEN DigitsValue(Tail(cs), acc)
    ELSE DigitsValue(Tail(cs), 10 * acc + DigitValue(cs[1]))

\* the number of digits of a digit string
DigitCount(cs) == Cardinality({i \in 1..Len(cs) : cs[i] # "_"})

RECURSIVE Pow10(_)
Pow10(k) == IF k = 0 THEN 1 ELSE 10 * Pow10(k - 1)

Signed(cs) == cs # <<>> /\ cs[1] \in {"+", "-"}

Unsigned(cs) == IF Signed(cs) THEN Tail(cs) ELSE cs

SignOf(cs) == IF Signed(cs) /\ cs[1] = "-" THEN -1 ELSE 1

\* int(str): ok = FALSE stands for ValueError("invalid literal for int()")
ParseInt(cs) ==
    LET s == Strip(cs)
        body == Unsigned(s)
    IN  IF DigitString(body)
        THEN [ok |-> TRUE, n |-> SignOf(s) * DigitsValue(body, 0)]
        ELSE [ok |-> FALSE, n |-> 0]

RECURSIVE GCD(_, _)
GCD(a, b) == IF b = 0 THEN a ELSE GCD(b, a % b)

Abs(n) == IF n < 0 THEN -n ELSE n

\* the float that is the quotient n / d (d # 0), as a reduced fraction
Quotient(n, d) ==
    LET g == GCD(Abs(n), Abs(d))
        s == IF d < 0 THEN -1 ELSE 1
    IN  [num |-> (s * n) \div g, den |-> (s * d) \div g]

\* float(str): ok = FALSE stands for ValueError("could not convert string to float")
ParseFloat(cs) ==
    LET s == Strip(cs)
        body == Unsigned(s)
        parts == Split(body, ".")
        whole == parts[1]
        frac == IF Len(parts) = 2 THEN parts[2] ELSE <<>>
        wellFormed ==
            /\ Len(parts) <= 2
            /\ whole = <<>> \/ DigitString(whole)
            /\ frac = <<>> \/ DigitString(frac)
            /\ whole # <<>> \/ frac # <<>>
        scale == Pow10(DigitCount(frac))
    IN  IF wellFormed
        THEN [ok |-> TRUE,
              x |-> Quotient(SignOf(s) * (DigitsValue(whole, 0) * scale
                                            + DigitsValue(frac, 0)), scale)]
        ELSE [ok |-> FALSE, x |-> Quotient(0, 1)]

-----------------------------------------------------------------------------
(* JSON values of the probe output *)

\* a key the JSON object does not have
Absent == [t |-> "absent"]

\* a JSON number
Num(n) == [t |-> "num", n |-> n]

\* a JSON string the code only copies or compares
Text(s) == [t |-> "str", s |-> s]

\* a JSON string the code splits or converts, by its characters
Chars(cs) == [t |-> "str", cs |-> cs]

\* the nested `tags` object, with its gop_size member
Tags(gop) == [t |-> "obj", gop_size |-> gop]

\* dict.get(key, default)
Get(d, key, default) == IF d[key] = Absent THEN default ELSE d[key]

\* a step of get_video_properties: it raised exc, or it produced v
Raise(exc) == [exc |-> exc, v |-> Absent]

Value(v) == [exc |-> "none", v |-> v]

\* int(x) for a JSON number or string
PyInt(x) ==
    IF x.t = "num" THEN Value(x.n)
    ELSE IF ParseInt(x.cs).ok THEN Value(ParseInt(x.cs).n)
    ELSE Raise("ValueError")

\* line 34: json.loads(result.stdout); the exit code is not looked at
LoadJson(result) ==
    IF result.stdout.valid THEN Value(result.stdout) ELSE Raise("JSONDecodeError")

\* SelectStream with an empty or missing streams array read as one stream with
\* no fields, as video_info.get('streams') or [{}] would
SelectStreamOrEmpty(video_info) ==
    IF video_info.top # "object" THEN Raise("TypeError")
    ELSE IF ~video_info.hasStreams \/ video_info.streams = <<>>
    THEN Value([f \in {"codec_name", "level", "profile", "width", "height",
                       "bit_rate", "r_frame_rate", "display_aspect_ratio",
                       "color_space", "pix_fmt", "bits_per_raw_sample",
                       "field_order", "tags"} |-> Absent])
    ELSE Value(video_info.streams[1])

\* line 37: video_info['streams'][0]
SelectStream(video_info) ==
    IF video_info.top # "object" THEN Raise("TypeError")
    ELSE IF ~video_info.hasStreams THEN Raise("KeyError")
    ELSE IF video_info.streams = <<>> THEN Raise("IndexError")
    ELSE Value(video_info.streams[1])

\* FrameRate with the floor division frame_rate_num // frame_rate_den
FrameRateFloor(video_stream) ==
    LET field == video_stream["r_frame_rate"]
        parts == Split(field.cs, "/")
        num == ParseInt(parts[1])
        den == ParseInt(parts[2])
    IN  IF field = Absent THEN Raise("KeyError")
        ELSE IF field.t = "num" THEN Raise("AttributeError")
        ELSE IF Len(parts) # 2 THEN Raise("ValueError")
        ELSE IF ~num.ok \/ ~den.ok THEN Raise("ValueError")
        ELSE IF den.n = 0 THEN Raise("ZeroDivisionError")
        ELSE Value(Quotient(num.n \div den.n, 1))

\* lines 40-41: map(int, r_frame_rate.split('/')) unpacked into two, then divided
FrameRate(video_stream) ==
    LET field == video_stream["r_frame_rate"]
        parts == Split(field.cs, "/")
        num == ParseInt(parts[1])
        den == ParseInt(parts[2])
    IN  IF field = Absent THEN Raise("KeyError")
        ELSE IF field.t = "num" THEN Raise("AttributeError")
        ELSE IF Len(parts) # 2 THEN Raise("ValueError")
        ELSE IF ~num.ok \/ ~den.ok THEN Raise("ValueError")
        ELSE IF den.n = 0 THEN Raise("ZeroDivisionError")
        ELSE Value(Quotient(num.n, den.n))

\* the float that is the quotient a / b of two floats (b # 0): the operands are
\* rounded to doubles before the division and the quotient is rounded again, so
\* it is kept as the pair of its operands, not as the fraction of the decimals
\* ("0.1:0.3" gives 0.33333333333333337, which is not the double nearest 1/3)
FloatQuotient(a, b) == [dividend |-> a, divisor |-> b]

\* line 44: float(dar.split(':')[0]) / float(dar.split(':')[1])
DisplayAspectRatio(video_stream) ==
    LET field == video_stream["display_aspect_ratio"]
        parts == Split(field.cs, ":")
        w == ParseFloat(parts[1])
        h == ParseFloat(parts[2])
    IN  IF field = Absent THEN Raise("KeyError")
        ELSE IF field.t = "num" THEN Raise("AttributeError")
        ELSE IF ~w.ok THEN Raise("ValueError")
        ELSE IF Len(parts) < 2 THEN Raise("IndexError")
        ELSE IF ~h.ok THEN Raise("ValueError")
        ELSE IF h.x.num = 0 THEN Raise("ZeroDivisionError")
        ELSE Value(FloatQuotient(w.x, h.x))

\* lines 50-51: int(gop_info[i].split('=')[1])
GopValue(gop_info, i) ==
    LET kv == Split(gop_info[i], "=")
    IN  IF Len(gop_info) < i THEN Raise("IndexError")
        ELSE IF Len(kv) < 2 THEN Raise("IndexError")
        ELSE IF ~ParseInt(kv[2]).ok THEN Raise("ValueError")
        ELSE Value(ParseInt(kv[2]).n)

\* GopSize with the tag subscripted without the membership test of line 48
GopSizeRequired(video_stream) ==
    LET tags == video_stream["tags"]
        gop_info == Split(tags.gop_size.cs, ",")
        m == GopValue(gop_info, 1)
        n == GopValue(gop_info, 2)
    IN  IF tags = Absent \/ tags.gop_size = Absent THEN Raise("KeyError")
        ELSE IF tags.gop_size.t = "num" THEN Raise("AttributeError")
        ELSE IF m.exc # "none" THEN m
        ELSE IF n.exc # "none" THEN n
        ELSE Value([gop_m |-> m.v, gop_n |-> n.v])

\* lines 47-51: gop_m, gop_n, (0, 0) unless tags.gop_size is there
GopSize(video_stream) ==
    LET tags == video_stream["tags"]
        gop_info == Split(tags.gop_size.cs, ",")
        m == GopValue(gop_info, 1)
        n == GopValue(gop_info, 2)
    IN  IF tags = Absent \/ tags.gop_size = Absent
        THEN Value([gop_m |-> 0, gop_n |-> 0])
        ELSE IF tags.gop_size.t = "num" THEN Raise("AttributeError")
        ELSE IF m.exc # "none" THEN m
        ELSE IF n.exc # "none" THEN n
        ELSE Value([gop_m |-> m.v, gop_n |-> n.v])

\* line 66
ScanType(video_stream) ==
    IF Get(video_stream, "field_order", Text("progressive")) # Text("progressive")
    THEN "interlaced" ELSE "progressive"

\* line 67
ScanOrder(video_stream) ==
    IF Get(video_stream, "field_order", Text("bb")) = Text("tt") THEN "TFF"
    ELSE IF Get(video_stream, "field_order", Text("tt")) = Text("bb") THEN "BFF"
    ELSE "Progressive"

\* video_stream[key]
Subscript(video_stream, key) ==
    IF video_stream[key] = Absent THEN Raise("KeyError") ELSE Value(video_stream[key])

\* int(video_stream[key])
SubscriptInt(video_stream, key) ==
    IF video_stream[key] = Absent THEN Raise("KeyError") ELSE PyInt(video_stream[key])

\* the outcome of a call: the exception raised and where, or the returned value
Raised(exc, site) == [run |-> TRUE, exc |-> exc, site |-> site, props |-> Absent]

Returned(props) == [run |-> TRUE, exc |-> "none", site |-> "return", props |-> props]

\* lines 53-73: the dictionary, its entries evaluated in order
BuildProperties(video_stream, frame_rate, display_aspect_ratio, gop) ==
    LET codec_name == Subscript(video_stream, "codec_name")
        level == Subscript(video_stream, "level")
        width == SubscriptInt(video_stream, "width")
        height == SubscriptInt(video_stream, "height")
        bit_rate == PyInt(Get(video_stream, "bit_rate", Chars(<<"0">>)))
        bit_depth == PyInt(Get(video_stream, "bits_per_raw_sample", Chars(<<"8">>)))
    IN  IF codec_name.exc # "none" THEN Raised(codec_name.exc, "codec_name")
        ELSE IF level.exc # "none" THEN Raised(level.exc, "level")
        ELSE IF width.exc # "none" THEN Raised(width.exc, "width")
        ELSE IF height.exc # "none" THEN Raised(height.exc, "height")
        ELSE IF bit_rate.exc # "none" THEN Raised(bit_rate.exc, "bit_rate")
        ELSE IF bit_depth.exc # "none" THEN Raised(bit_depth.exc, "bits_per_raw_sample")
        ELSE Returned([format_name |-> codec_name.v,
                       format_level |-> level.v,
                       codec_name |-> codec_name.v,
                       format_profile |-> Get(video_stream, "profile", Text("")),
                       width |-> width.v,
                       height |-> height.v,
                       bit_rate |-> bit_rate.v,
                       frame_rate |-> frame_rate,
                       display_aspect_ratio |-> display_aspect_ratio,
                       color_space |-> Get(video_stream, "color_space", Text("")),
                       chroma_subsampling |-> Get(video_stream, "pix_fmt", Text("")),
                       bit_depth |-> bit_depth.v,
                       scan_type |-> ScanType(video_stream),
                       scan_order |-> ScanOrder(video_stream),
                       gop_m |-> gop.gop_m,
                       gop_n |-> gop.gop_n])

\* lines 13-73: get_video_properties, given what subprocess.run did for ffprobe
GetVideoProperties(result) ==
    LET video_info == LoadJson(result)
        video_stream == SelectStream(video_info.v)
        frame_rate == FrameRate(video_stream.v)
        display_aspect_ratio == DisplayAspectRatio(video_stream.v)
        gop == GopSize(video_stream.v)
    IN  IF result.spawn # "ok" THEN Raised(result.spawn, "subprocess.run")
        ELSE IF video_info.exc # "none" THEN Raised(video_info.exc, "json.loads")
        ELSE IF video_stream.exc # "none" THEN Raised(video_stream.exc, "streams")
        ELSE IF frame_rate.exc # "none" THEN Raised(frame_rate.exc, "r_frame_rate")
        ELSE IF display_aspect_ratio.exc # "none"
             THEN Raised(display_aspect_ratio.exc, "display_aspect_ratio")
        ELSE IF gop.exc # "none" THEN Raised(gop.exc, "tags.gop_size")
        ELSE BuildProperties(video_stream.v, frame_rate.v, display_aspect_ratio.v, gop.v)

-----------------------------------------------------------------------------
(* What the external processes can produce *)

Fields ==
    {"codec_name", "level", "profile", "width", "height", "bit_rate",
     "r_frame_rate", "display_aspect_ratio", "color_space", "pix_fmt",
     "bits_per_raw_sample", "field_order", "tags"}

\* a stream with every field the code reads
FullStream ==
    [codec_name |-> Text("h264"), level |-> Num(40), profile |-> Text("High"),
     width |-> Num(1920), height |-> Num(1080),
     bit_rate |-> Chars(<<"5", "0", "0", "0">>),
     r_frame_rate |-> Chars(<<"2", "5", "/", "1">>), display_aspect_ratio |-> Chars(<<"1", "6", ":", "9">>),
     color_space |-> Text("bt709"), pix_fmt |-> Text("yuv420p"),
     bits_per_raw_sample |-> Chars(<<"1", "0">>), field_order |-> Text("tt"),
     tags |-> Tags(Chars(<<"M", "=", "3", ",", "N", "=", "1", "2">>))]

\* a stream with only the fields the code subscripts
MinimalStream ==
    [codec_name |-> Text("mpeg2video"), level |-> Num(5), profile |-> Absent,
     width |-> Num(720), height |-> Num(576), bit_rate |-> Absent,
     r_frame_rate |-> Chars(<<"3", "0", "0", "0", "0", "/", "1", "0", "0", "1">>), display_aspect_ratio |-> Chars(<<"4", ":", "3">>),
     color_space |-> Absent, pix_fmt |-> Absent, bits_per_raw_sample |-> Absent,
     field_order |-> Absent, tags |-> Absent]

\* the other values a field takes, besides being absent
Alternatives(f) ==
    CASE f = "codec_name" -> {Text("prores")}
      [] f = "level" -> {Num(-99)}
      [] f = "profile" -> {Text("Main")}
      [] f = "width" -> {Num(0), Num(1280), Chars(<<"1", "2", "8", "0">>), Chars(<<"x">>)}
      [] f = "height" -> {Num(0), Num(-720), Chars(<<"7", "2", "0">>)}
      [] f = "bit_rate" -> {Chars(<<"0">>),
            Chars(<<"-", "1">>),
            Chars(<<"5", "0", "_", "0", "0", "0">>),
            Chars(<<"5", "0", "M">>),
            Num(800)}
      [] f = "r_frame_rate" -> {Chars(<<"3", "0", "0", "0", "0", "/", "1", "0", "0", "1">>),
            Chars(<<"5", "0", "/", "2">>),
            Chars(<<"0", "/", "1">>),
            Chars(<<"2", "5", "/", "0">>),
            Chars(<<"3", "0", "/", "-", "1">>),
            Chars(<<"-", "3", "0", "/", "1">>),
            Chars(<<" ", "2", "4", " ", "/", "1">>),
            Chars(<<"2", "5">>),
            Chars(<<"2", "5", "/", "1", "/", "1">>),
            Chars(<<"2", ".", "5", "/", "1">>),
            Chars(<<"x", "/", "1">>),
            Chars(<<"/">>),
            Chars(<<>>),
            Num(25)}
      [] f = "display_aspect_ratio" -> {Chars(<<"4", ":", "3">>),
            Chars(<<"0", ":", "1">>),
            Chars(<<"1", "6", ":", "0">>),
            Chars(<<"1", "6">>),
            Chars(<<"1", "6", ":", "9", ":", "1">>),
            Chars(<<"1", ".", "5", ":", "1">>),
            Chars(<<"0", ".", "1", ":", "0", ".", "3">>),
            Chars(<<"x", ":", "9">>),
            Chars(<<"1", "6", ":", "x">>),
            Chars(<<"-", "1", "6", ":", "9">>),
            Num(2)}
      [] f = "color_space" -> {Text("bt2020nc")}
      [] f = "pix_fmt" -> {Text("yuv422p10le")}
      [] f = "bits_per_raw_sample" -> {Chars(<<"8">>),
            Chars(<<"0">>),
            Chars(<<"x">>)}
      [] f = "field_order" ->
            {Text("progressive"), Text("tt"), Text("bb"), Text("tb"), Text("bt"),
             Text("unknown")}
      [] f = "tags" -> {Tags(Absent),
            Tags(Chars(<<"M", "=", "1", ",", "N", "=", "1", "5">>)),
            Tags(Chars(<<"1", "2">>)),
            Tags(Chars(<<"M", "=", "3">>)),
            Tags(Chars(<<"M", "=", "x", ",", "N", "=", "1", "2">>)),
            Tags(Chars(<<"M", "=", "3", ",", "N", "=", "1", "2", ",", "x", "=", "1">>)),
            Tags(Num(12))}

\* the streams of S and those that differ from one of them in one field
Variations(S) ==
    S \cup {[s EXCEPT ![f] = v] :
              s \in S,
              <<f, v>> \in UNION {{f} \X (Alternatives(f) \cup {Absent}) : f \in Fields}}

\* streams with more than one field out of the ordinary
Combined ==
    {[FullStream EXCEPT !["r_frame_rate"] = Chars(<<"2", "5">>),
                        !["display_aspect_ratio"] = Chars(<<"1", "6">>)],
     [FullStream EXCEPT !["bit_rate"] = Absent,
                        !["bits_per_raw_sample"] = Chars(<<"x">>)],
     [FullStream EXCEPT !["tags"] = Tags(Absent), !["width"] = Chars(<<"x">>)],
     [MinimalStream EXCEPT !["r_frame_rate"] = Chars(<<"0", "/", "1">>),
                           !["field_order"] = Text("tb"),
                           !["bit_rate"] = Chars(<<"-", "1">>)],
     [MinimalStream EXCEPT !["r_frame_rate"] = Absent, !["codec_name"] = Absent]}

Streams == Variations({FullStream, MinimalStream}) \cup Combined

\* stdout of ffprobe: text that is not JSON, or the JSON document it is
NotJson == [valid |-> FALSE, top |-> "none", hasStreams |-> FALSE, streams |-> <<>>]

Document(top, hasStreams, streams) ==
    [valid |-> TRUE, top |-> top, hasStreams |-> hasStreams, streams |-> streams]

Stdouts ==
    {NotJson, Document("array", FALSE, <<>>), Document("object", FALSE, <<>>),
     Document("object", TRUE, <<>>),
     Document("object", TRUE, <<MinimalStream, FullStream>>)}
    \cup {Document("object", TRUE, <<s>>) : s \in Streams}

ExitCodes == 0..MaxExit

\* subprocess.run could not start the program: an OSError, no result object
SpawnErrors == {"FileNotFoundError", "PermissionError"}

SpawnFailure(exc) == [run |-> TRUE, spawn |-> exc]

\* what subprocess.run does for ffprobe (line 33)
ProbeResults ==
    [run : {TRUE}, spawn : {"ok"}, returncode : ExitCodes, stdout : Stdouts]
    \cup {SpawnFailure(e) : e \in SpawnErrors}

\* what subprocess.run does for ffmpeg (line 117)
FfmpegResults ==
    [run : {TRUE}, spawn : {"ok"}, returncode : ExitCodes,
     stderr : {"", "invalid codec"}]
    \cup {SpawnFailure(e) : e \in SpawnErrors}

\* the arguments of convert_video_to_requirements (lines 75-77)
Request(input, output, video_codec, resolution, bitrate, audio_codec) ==
    [run |-> TRUE, input_video_path |-> input, output_video_path |-> output,
     video_codec |-> video_codec, resolution |-> resolution, bitrate |-> bitrate,
     audio_codec |-> audio_codec]

\* line 145: the script's call, every optional argument at its default
DefaultRequest(input) ==
    Request(input, "output.mxf", "h264_videotoolbox", "1920x1080", "50M", "pcm_s16le")

Requests ==
    {Request(i, o, v, r, b, a) :
        i \in {"./clip.mp4", "-pix_fmt"},
        o \in {"output.mxf", "nv12"},
        v \in {"h264_videotoolbox", "H264_VIDEOTOOLBOX", "libx264", "mpeg2video",
               "-pix_fmt"},
        r \in {"1920x1080", "1280x720"},
        b \in {"50M", "-pix_fmt"},
        a \in {"pcm_s16le", "nv12"}}

-----------------------------------------------------------------------------
(* The converter *)

\* BuildCommand with the pixel format appended for every codec
BuildCommandAlwaysPixFmt(req) ==
    <<"ffmpeg",
      "-i", req.input_video_path,
      "-c:v", req.video_codec,
      "-profile:v", "4:2:2",
      "-g", "12",
      "-b:v", req.bitrate,
      "-minrate", req.bitrate,
      "-maxrate", req.bitrate,
      "-bufsize", req.bitrate,
      "-vf", "scale=" \o req.resolution \o ",setfield=mode=tff",
      "-aspect", "16:9",
      "-r", "25",
      "-c:a", req.audio_codec,
      "-ar", "48k",
      "-ac", "2",
      "-b:a", "1536k",
      "-pix_fmt", "nv12",
      req.output_video_path>>

\* lines 89-113: the ffmpeg argument list
BuildCommand(req) ==
    <<"ffmpeg",
      "-i", req.input_video_path,
      "-c:v", req.video_codec,
      "-profile:v", "4:2:2",
      "-g", "12",
      "-b:v", req.bitrate,
      "-minrate", req.bitrate,
      "-maxrate", req.bitrate,
      "-bufsize", req.bitrate,
      "-vf", "scale=" \o req.resolution \o ",setfield=mode=tff",
      "-aspect", "16:9",
      "-r", "25",
      "-c:a", req.audio_codec,
      "-ar", "48k",
      "-ac", "2",
      "-b:a", "1536k">>
    \o (IF req.video_codec = "h264_videotoolbox" THEN <<"-pix_fmt", "nv12">> ELSE <<>>)
    \o <<req.output_video_path>>

\* the outcome of a call of convert_video_to_requirements
ConvertOutcome(raised, printed) ==
    [run |-> TRUE, raised |-> raised, returned |-> "None", printed |-> printed]

\* lines 116-123: the RuntimeError of a non-zero exit is caught and printed; an
\* OSError of subprocess.run is not in the except clause; nothing is returned
ConvertVideoToRequirements(req, result) ==
    IF result.spawn # "ok" THEN ConvertOutcome(result.spawn, "")
    ELSE IF result.returncode # 0
    THEN ConvertOutcome("none", "Error during conversion: "
                                  \o "ffmpeg conversion failed: " \o result.stderr)
    ELSE ConvertOutcome("none", "Video conversion completed successfully.")

-----------------------------------------------------------------------------
(* The page: lines 126-153, run top to bottom on every interaction *)

NotRun == [run |-> FALSE]

\* lines 126-128
PageTop == <<"title", "file_uploader">>

\* lines 140-142
PageInspected == PageTop \o <<"video_properties", "button">>

\* lines 146-153
PageConverted ==
    PageInspected
    \o <<"Conversion completed", "Download the converted file",
         "download_button output.mxf">>

\* an exception leaving the script ends the run; Streamlit shows it
PageAfter(page) == page \o <<"exception">>

Shows(page, element) == \E i \in 1..Len(page) : page[i] = element

Init ==
    /\ ui = PageTop
    /\ probe = NotRun
    /\ inspected = NotRun
    /\ request = NotRun
    /\ command = <<>>
    /\ ffmpeg = NotRun
    /\ converted = NotRun

\* line 137: every ffprobe outcome with what get_video_properties makes of it
Inspections == {<<p, GetVideoProperties(p)>> : p \in ProbeResults}

\* lines 130-142, a run of the script with a file in the uploader and the button
\* not pressed, whatever the page showed before: a file is put in the uploader
\* (the first, or one that replaces another), or the page runs again for another
\* widget (the Download button of line 148)
Upload ==
    /\ \E run \in Inspections :
          /\ probe' = run[1]
          /\ inspected' = run[2]
    /\ ui' = IF inspected'.exc = "none" THEN PageInspected ELSE PageAfter(PageTop)
    /\ request' = NotRun
    /\ command' = <<>>
    /\ ffmpeg' = NotRun
    /\ converted' = NotRun

\* lines 130-153, a run of the script with the button pressed: the file is
\* inspected again, whatever ffprobe does this time, then converted with the
\* default request
PressButton(run, f) ==
    /\ Shows(ui, "button")
    /\ probe' = run[1]
    /\ inspected' = run[2]
    /\ IF inspected'.exc # "none"
       THEN /\ ui' = PageAfter(PageTop)
            /\ request' = NotRun
            /\ command' = <<>>
            /\ ffmpeg' = NotRun
            /\ converted' = NotRun
       ELSE /\ request' = DefaultRequest("./clip.mp4")
            /\ command' = BuildCommand(request')
            /\ ffmpeg' = f
            /\ converted' = ConvertVideoToRequirements(request', f)
            /\ ui' = IF converted'.raised = "none"
                     THEN PageConverted ELSE PageAfter(PageInspected)

\* line 130 with no file: the upload is removed
RemoveUpload ==
    /\ ui # PageTop
    /\ ui' = PageTop
    /\ probe' = NotRun
    /\ inspected' = NotRun
    /\ request' = NotRun
    /\ command' = <<>>
    /\ ffmpeg' = NotRun
    /\ converted' = NotRun

Next ==
    \/ Upload
    \/ \E run \in Inspections, f \in FfmpegResults : PressButton(run, f)
    \/ RemoveUpload

Spec == Init /\ [][Next]_vars

-----------------------------------------------------------------------------
(* The converter called on its own, with arguments of the caller's choice *)

\* a request and what subprocess.run will do for it, before the call
ConvertInit ==
    /\ ui = PageTop
    /\ probe = NotRun
    /\ inspected = NotRun
    /\ request \in Requests
    /\ ffmpeg \in FfmpegResults
    /\ command = <<>>
    /\ converted = NotRun

\* lines 75-123: convert_video_to_requirements(**request)
Convert ==
    /\ ~converted.run
    /\ command' = BuildCommand(request)
    /\ converted' = ConvertVideoToRequirements(request, ffmpeg)
    /\ UNCHANGED <<ui, probe, inspected, request, ffmpeg>>

ConvertNext == Convert

ConvertSpec == ConvertInit /\ [][ConvertNext]_vars

-----------------------------------------------------------------------------
(* Vocabulary of the properties *)

\* the ffprobe run of the last inspection produced a JSON document
ProbedJson == probe.run /\ probe.spawn = "ok" /\ probe.stdout.valid

\* ... and the document has a first stream
ProbedStream ==
    /\ ProbedJson
    /\ probe.stdout.top = "object"
    /\ probe.stdout.hasStreams
    /\ probe.stdout.streams # <<>>

TheStream == probe.stdout.streams[1]

\* the error taxonomy: a failure is classified by the step that raised it
ErrorClass(outcome) ==
    IF outcome.exc = "none" THEN "none"
    ELSE IF outcome.site \in {"subprocess.run", "json.loads"} THEN "ProbeError"
    ELSE IF outcome.site = "streams" THEN "MissingStreamError"
    ELSE "MalformedFieldError"

\* get_video_properties failed with the error class and handed back no record
FailedWith(class) ==
    /\ inspected.exc # "none"
    /\ inspected.props = Absent
    /\ ErrorClass(inspected) = class

\* what the caller of convert_video_to_requirements gets from the call
CallResult(outcome) == <<outcome.raised, outcome.returned>>

\* the call came back normally, as it does after a successful conversion
SuccessResult == <<"none", "None">>

\* the ffmpeg process of the last conversion ran and exited
Exited == ffmpeg.run /\ ffmpeg.spawn = "ok"

-----------------------------------------------------------------------------
(* C1 *)

\* C1: after every conversion whose ffmpeg process exited, a non-zero exit code
\* gives a failure message carrying the captured stderr and a call result other
\* than the one of a success, and exit code zero gives the success result.
C1_ResultTellsOutcome ==
    (converted.run /\ Exited) =>
        IF ffmpeg.returncode # 0
        THEN /\ converted.printed
                  = "Error during conversion: ffmpeg conversion failed: " \o ffmpeg.stderr
             /\ CallResult(converted) # SuccessResult
        ELSE CallResult(converted) = SuccessResult

-----------------------------------------------------------------------------
(* C2 *)

\* C2: no exception leaves convert_video_to_requirements, whatever subprocess.run
\* did, a failure to start ffmpeg included.
C2_NothingPropagates == converted.run => converted.raised = "none"

-----------------------------------------------------------------------------
(* C3 *)

\* C3: an inspection whose ffprobe process exited non-zero, or wrote text that is
\* not JSON, fails with ProbeError and no record; a record is returned only after
\* a probe that exited zero.
C3_ProbeFailureIsProbeError ==
    (inspected.run /\ probe.spawn = "ok") =>
        /\ (probe.returncode # 0 \/ ~probe.stdout.valid) => FailedWith("ProbeError")
        /\ inspected.exc = "none" => probe.returncode = 0

-----------------------------------------------------------------------------
(* C4 *)

\* C4: when the probe output is JSON whose streams array is absent or empty, the
\* inspection fails with MissingStreamError and hands back no record.
C4_MissingStream ==
    (inspected.run /\ ProbedJson /\ ~ProbedStream) => FailedWith("MissingStreamError")

\* an inspection of a document with an empty streams array, and one of a document
\* without the key
C4_Witness ==
    /\ inspected.run /\ ProbedJson
    /\ probe.stdout.top = "object" /\ probe.stdout.hasStreams
    /\ probe.stdout.streams = <<>>
    /\ inspected.exc = "IndexError"

-----------------------------------------------------------------------------
(* C5 *)

\* the arguments "-pix_fmt" "nv12" next to each other
HasPixFmtPair(cmd) ==
    \E i \in 1..(Len(cmd) - 1) : cmd[i] = "-pix_fmt" /\ cmd[i + 1] = "nv12"

\* C5: the built command holds the pair -pix_fmt nv12 exactly when the video codec
\* is 'h264_videotoolbox'; the pair then sits right before the output path, and
\* the output path is the last argument either way.
C5_PixFmtOnlyForDefaultCodec ==
    converted.run =>
        /\ HasPixFmtPair(command) <=> request.video_codec = "h264_videotoolbox"
        /\ HasPixFmtPair(command) =>
              /\ command[Len(command) - 2] = "-pix_fmt"
              /\ command[Len(command) - 1] = "nv12"
        /\ command[Len(command)] = request.output_video_path

\* a conversion with the default codec and another resolution, bitrate and audio
\* codec than the defaults
C5_Witness ==
    /\ converted.run
    /\ request.video_codec = "h264_videotoolbox"
    /\ request.resolution = "1280x720"
    /\ request.bitrate # "50M"
    /\ request.audio_codec # "pcm_s16le"
    /\ HasPixFmtPair(command)

-----------------------------------------------------------------------------
(* C6 *)

NoGopTag == TheStream["tags"] = Absent \/ TheStream["tags"].gop_size = Absent

\* the field whose absence would have raised at the site, if any
AbsentAt(site) ==
    CASE site = "bit_rate" -> TheStream["bit_rate"] = Absent
      [] site = "bits_per_raw_sample" -> TheStream["bits_per_raw_sample"] = Absent
      [] site = "tags.gop_size" -> NoGopTag
      [] OTHER -> FALSE

\* C6: an absent optional field never makes the inspection fail, and the returned
\* record has its default: profile '', bit_rate 0, color_space '', pix_fmt '',
\* bits_per_raw_sample 8, field_order progressive/Progressive, GOP (0, 0).
C6_OptionalDefaults ==
    (inspected.run /\ ProbedStream) =>
        /\ inspected.exc # "none" => ~AbsentAt(inspected.site)
        /\ inspected.exc = "none" =>
              /\ TheStream["profile"] = Absent => inspected.props.format_profile = Text("")
              /\ TheStream["bit_rate"] = Absent => inspected.props.bit_rate = 0
              /\ TheStream["color_space"] = Absent => inspected.props.color_space = Text("")
              /\ TheStream["pix_fmt"] = Absent =>
                    inspected.props.chroma_subsampling = Text("")
              /\ TheStream["bits_per_raw_sample"] = Absent => inspected.props.bit_depth = 8
              /\ TheStream["field_order"] = Absent =>
                    /\ inspected.props.scan_type = "progressive"
                    /\ inspected.props.scan_order = "Progressive"
              /\ NoGopTag => inspected.props.gop_m = 0 /\ inspected.props.gop_n = 0

\* a record returned for a stream with every optional field absent
C6_Witness ==
    /\ inspected.run /\ ProbedStream
    /\ \A f \in {"profile", "bit_rate", "color_space", "pix_fmt",
                 "bits_per_raw_sample", "field_order", "tags"} : TheStream[f] = Absent
    /\ inspected.exc = "none"
    /\ inspected.props.bit_depth = 8

-----------------------------------------------------------------------------
(* C7 *)

Digit(d) ==
    CASE d = 0 -> "0" [] d = 1 -> "1" [] d = 2 -> "2" [] d = 3 -> "3" [] d = 4 -> "4"
      [] d = 5 -> "5" [] d = 6 -> "6" [] d = 7 -> "7" [] d = 8 -> "8" [] d = 9 -> "9"

\* the decimal numeral of an integer
RECURSIVE Numeral(_)
Numeral(n) ==
    IF n < 0 THEN <<"-">> \o Numeral(-n)
    ELSE IF n < 10 THEN <<Digit(n)>>
    ELSE Numeral(n \div 10) \o <<Digit(n % 10)>>

\* the text "num/den"
Ratio(num, den) == Chars(Numeral(num) \o <<"/">> \o Numeral(den))

\* numerators and denominators of the frame rates looked at
FrameRatePairs ==
    {<<30000, 1001>>, <<25, 1>>, <<50, 2>>, <<0, 1>>, <<-30, 1>>, <<25, 0>>,
     <<30, -1>>}

Count(cs, c) == Cardinality({i \in 1..Len(cs) : cs[i] = c})

\* text that is no integer: it has no digit, or a character no integer has
NotAnInteger(cs) ==
    \/ \A i \in 1..Len(cs) : cs[i] \notin Digits
    \/ \E i \in 1..Len(cs) : cs[i] \notin Digits \cup {"+", "-", "_", " "}

\* text of an integer that is zero
ZeroText(cs) ==
    /\ \E i \in 1..Len(cs) : cs[i] = "0"
    /\ \A i \in 1..Len(cs) : cs[i] \in {"0", "+", "-", "_", " "}

\* r_frame_rate is not of the form "num/den": no '/', more than one '/', a part
\* that is no integer, or a zero denominator
MalformedRatio(cs) ==
    \/ Count(cs, "/") # 1
    \/ LET i == CHOOSE k \in 1..Len(cs) : cs[k] = "/"
       IN  \/ NotAnInteger(SubSeq(cs, 1, i - 1))
           \/ NotAnInteger(SubSeq(cs, i + 1, Len(cs)))
           \/ ZeroText(SubSeq(cs, i + 1, Len(cs)))

\* C7: for r_frame_rate "num/den" with den > 0 a returned record has exactly the
\* quotient num/den as frame rate, and the frame rate is not what fails; with the
\* field absent or malformed the inspection fails with MalformedFieldError and
\* hands back no record.
C7_FrameRateQuotient ==
    (inspected.run /\ ProbedStream) =>
        LET field == TheStream["r_frame_rate"]
        IN  /\ \A pair \in FrameRatePairs :
                  (pair[2] > 0 /\ field = Ratio(pair[1], pair[2])) =>
                      /\ inspected.site # "r_frame_rate"
                      /\ inspected.exc = "none" =>
                            /\ inspected.props.frame_rate.den > 0
                            /\ inspected.props.frame_rate.num * pair[2]
                                  = pair[1] * inspected.props.frame_rate.den
            /\ (field = Absent \/ (field.t = "str" /\ MalformedRatio(field.cs))) =>
                  /\ FailedWith("MalformedFieldError")
                  /\ inspected.site = "r_frame_rate"

\* a record whose frame rate is 30000/1001, from the text "30000/1001"
C7_Witness ==
    /\ inspected.run /\ ProbedStream
    /\ TheStream["r_frame_rate"] = Ratio(30000, 1001)
    /\ inspected.exc = "none"
    /\ inspected.props.frame_rate = [num |-> 30000, den |-> 1001]

-----------------------------------------------------------------------------
(* C8 *)

\* C8: every returned record has a positive frame rate from a denominator > 0, a
\* positive display aspect ratio, width > 0, height > 0 and bit_rate >= 0.
C8_RecordInvariants ==
    (inspected.run /\ inspected.exc = "none") =>
        /\ ParseInt(Split(TheStream["r_frame_rate"].cs, "/")[2]).n > 0
        /\ inspected.props.frame_rate.num > 0
        /\ inspected.props.display_aspect_ratio.dividend.num
              * inspected.props.display_aspect_ratio.divisor.num > 0
        /\ inspected.props.width > 0
        /\ inspected.props.height > 0
        /\ inspected.props.bit_rate >= 0

-----------------------------------------------------------------------------
(* C9 *)

\* C9: the page shows "Conversion completed" and the download only after a
\* conversion whose ffmpeg process exited with code zero.
C9_CompletedOnlyAfterSuccess ==
    (Shows(ui, "Conversion completed") \/ Shows(ui, "download_button output.mxf")) =>
        Exited /\ ffmpeg.returncode = 0

-----------------------------------------------------------------------------
(* C10 *)

\* C10: in every returned record scan_order is 'Progressive' exactly when
\* scan_type is 'progressive'.
C10_ScanOrderAgreesWithType ==
    (inspected.run /\ inspected.exc = "none") =>
        (inspected.props.scan_order = "Progressive"
            <=> inspected.props.scan_type = "progressive")

====
